---- MODULE Spec2Model ----
(***************************************************************************)
(* Model of the mobile-money simulation: three nodes (one master, two      *)
(* replicas), the lossy network simulator, the partition simulator, the    *)
(* four services (transfer with 2PC, balance, history, payment) and the    *)
(* two consistency strategies (Pure CP, Adaptive).                         *)
(*                                                                         *)
(* The program is single threaded: one call runs at a time.  A transfer is *)
(* modelled step by step (one step per message of the 2PC protocol), the   *)
(* other calls are one step each.  Wall-clock time is the variable now, in *)
(* seconds; it advances by the TickTo action to a later instant of         *)
(* TimePoints, between calls or between two steps of a transfer.  Delays   *)
(* shorter than the distance of two instants are not modelled.             *)
(***************************************************************************)
EXTENDS Integers, Sequences, FiniteSets, TLC

----------------------------------------------------------------------------
(* Bounds of the model *)

\* number of operations (transfer, balance, history, payment) of a scenario
MaxCalls == 1

\* number of instants the clock visits
MaxInstants == 2

\* number of messages sent in the network scenario
MaxLog == 1

\* number of records added in the history scenario
MaxAdds == 2

\* number of Transaction objects of the record scenario
MaxRecords == 2

----------------------------------------------------------------------------
(* Configuration: config/network_config.py, run_simulation.py *)

Nodes == {"DAKAR", "SAINT_LOUIS", "ZIGUINCHOR"}

Role == [DAKAR |-> "master", SAINT_LOUIS |-> "replica_rw",
         ZIGUINCHOR |-> "replica_analytics"]

\* the master node and the replica list every call of the driver passes
Master == "DAKAR"

ReplicaNodes == <<"SAINT_LOUIS", "ZIGUINCHOR">>

\* float('inf')
Inf == 999999

Modes == {"normal", "congested", "partitioned"}

\* NetworkConfig.LATENCIES as the class is loaded
ConfigLatencies ==
  [normal      |-> (<<"DAKAR", "SAINT_LOUIS">> :> 50) @@
                   (<<"DAKAR", "ZIGUINCHOR">> :> 150) @@
                   (<<"SAINT_LOUIS", "ZIGUINCHOR">> :> 200),
   congested   |-> (<<"DAKAR", "SAINT_LOUIS">> :> 200) @@
                   (<<"DAKAR", "ZIGUINCHOR">> :> 600) @@
                   (<<"SAINT_LOUIS", "ZIGUINCHOR">> :> 800),
   partitioned |-> (<<"DAKAR", "ZIGUINCHOR">> :> Inf) @@
                   (<<"DAKAR", "SAINT_LOUIS">> :> 50) @@
                   (<<"SAINT_LOUIS", "ZIGUINCHOR">> :> Inf)]

\* NetworkConfig.PACKET_LOSS, in tenths of a percent (0.1 %, 5.0 %, 100.0 %)
PACKET_LOSS == [normal |-> 1, congested |-> 50, partitioned |-> 1000]

\* random.random() * 100 ranges over [0, 100): the bound of the draw, in
\* tenths of a percent
LossScale == 1000

\* latency of a pair that no table configures
DefaultLatency == 100

\* NetworkConfig.TIMEOUTS['transfer'] / 1000.0, in seconds
TransferTimeout == 5

\* Node.is_healthy: seconds without heartbeat
HeartbeatTimeout == 3

\* NetworkConfig.CACHE_TTL, in seconds
BalanceTTL == 60

HistoryTTL == 300

\* threshold of the small payments
PaymentThreshold == 5000

\* default of the limit argument of HistoryService.get_history
HistoryLimit == 50

\* seed accounts loaded on every node
SeedAccounts == ("user_001" :> 10000) @@ ("user_002" :> 5000)

\* user ids the calls use: the seeded ones and one without account
AllUsers == {"user_001", "user_002", "user_404"}

\* 3000 is covered by both seeded accounts, 6000 by the first only
TransferAmounts == {3000, 6000}

PaymentAmounts == {2000, 4999, 5000, 6000}

Providers == {"SENELEC"}

\* instants the clock visits: the nodes are built at 0; at 6 the heartbeat
\* of a node built at 0 is stale and a phase started at 0 is past its
\* deadline; the later instants are past the time to live of a cache entry
\* written at 0
Instants == <<0, 6, 61, 305>>

TimePoints == {Instants[i] : i \in {j \in 1..Len(Instants) : j <= MaxInstants}}

\* the nodes the driver calls the strategies through
CallNodes == {"SAINT_LOUIS", "ZIGUINCHOR"}

\* the pair the driver partitions
PartitionPairs == {<<"DAKAR", "ZIGUINCHOR">>}

\* pairs of the network scenario, in both orders of the arguments
NetPairs == {<<"DAKAR", "ZIGUINCHOR">>, <<"ZIGUINCHOR", "DAKAR">>,
             <<"DAKAR", "SAINT_LOUIS">>}

Strategies == {"CP", "ADAPTIVE"}

Contexts == {"display", "pre_transfer"}

----------------------------------------------------------------------------
VARIABLES
  accounts,                 \* Node.accounts: node -> (user -> balance)
  transactions,             \* Node.transactions: node -> sequence of dicts
  cache,                    \* Node.cache: node -> (key -> (value, expiry))
  can_reach,                \* Node.can_reach: node -> (node -> bool)
  state,                    \* Node.state
  last_heartbeat,           \* Node.last_heartbeat
  now,                      \* time.time(), seconds since the nodes were built
  LATENCIES,                \* NetworkConfig.LATENCIES (module-level tables)
  mode,                     \* NetworkSimulator.mode; its latencies attribute
                            \* is the table LATENCIES[mode] itself
  communication_log,        \* NetworkSimulator.communication_log
  records,                  \* the Transaction objects, by creation order
  committed_transactions,   \* TransferService.committed_transactions (ids)
  aborted_transactions,     \* TransferService.aborted_transactions (ids)
  partition_active,         \* PartitionSimulator.partition_active
  pc,                       \* position of the running call
  call,                     \* the running (or last) call and its arguments
  result,                   \* the dict the last call returned
  tx,                       \* index in records of the call's transaction
  idx,                      \* loop index of the prepare / commit loop
  votes,                    \* votes of _prepare_phase: node -> YES / NO
  phase_start,              \* start_time of the running phase
  commit_acks,              \* responses of the commit loop: replica -> bool
  commit_base,              \* from_balance, to_balance read by _commit_phase
  pre,                      \* node data when the call started
  strategy,                 \* the strategy object of the run
  ncalls                    \* number of calls made

vars == <<accounts, transactions, cache, can_reach, state, last_heartbeat,
          now, LATENCIES, mode, communication_log, records,
          committed_transactions, aborted_transactions, partition_active,
          pc, call, result, tx, idx, votes, phase_start, commit_acks,
          commit_base, pre, strategy, ncalls>>

nodeVars == <<accounts, transactions, cache>>

netVars == <<LATENCIES, mode, communication_log>>

txVars == <<records, committed_transactions, aborted_transactions>>

stepVars == <<tx, idx, votes, phase_start, commit_acks, commit_base>>

----------------------------------------------------------------------------
(* Dictionaries *)

EmptyDict == [x \in {} |-> 0]

\* d[k] = v on a dict
DictSet(d, k, v) == [x \in DOMAIN d \cup {k} |-> IF x = k THEN v ELSE d[x]]

\* del d[k]
DictDel(d, k) == [x \in DOMAIN d \ {k} |-> d[x]]

----------------------------------------------------------------------------
(* models/node.py *)

IsMaster(n) == Role[n] = "master"

CanWrite(n) == Role[n] \in {"master", "replica_rw"}

\* a node that takes every master as reachable
CanReachMasterDefault(n) == TRUE

\* Node.can_reach_master(master_node)
CanReachMaster(n) == IF IsMaster(n) THEN TRUE ELSE can_reach[n][Master]

Stale(n) == now - last_heartbeat[n] > HeartbeatTimeout

\* value Node.is_healthy() returns
IsHealthy(n) == ~Stale(n) /\ state[n] = "healthy"

\* Node.state after is_healthy(), given the states st
StateAfterIsHealthy(st, n) ==
  IF Stale(n) THEN [st EXCEPT ![n] = "isolated"] ELSE st

HasAccount(acc, n, u) == u \in DOMAIN acc[n]

BalanceKey(u) == <<"balance", u>>

HistoryKey(u) == <<"history", u>>

\* Node._get_from_cache: is there an unexpired entry
CacheHit(c, n, k) == k \in DOMAIN c[n] /\ now < c[n][k].expiry

\* Node._get_from_cache: the cache afterwards (an expired entry is deleted)
CacheAfterGet(c, n, k) ==
  IF k \in DOMAIN c[n] /\ ~(now < c[n][k].expiry)
  THEN [c EXCEPT ![n] = DictDel(c[n], k)]
  ELSE c

\* Node._set_cache
SetCache(c, n, k, v, ttl) ==
  [c EXCEPT ![n] = DictSet(c[n], k, [value |-> v, expiry |-> now + ttl])]

\* Node._invalidate_cache
InvalidateCache(c, n, k) == [c EXCEPT ![n] = DictDel(c[n], k)]

\* Node.set_balance: the accounts afterwards
SetBalanceAccounts(acc, n, u, v) == [acc EXCEPT ![n] = DictSet(acc[n], u, v)]

\* Node.set_balance: the cache afterwards
SetBalanceCache(c, n, u) == InvalidateCache(c, n, BalanceKey(u))

\* Node.add_transaction: the dict is appended with the node id stamped on
AddTransaction(trs, n, d) ==
  [trs EXCEPT ![n] = Append(trs[n], [d EXCEPT !.node_id = n])]

\* Node.get_transactions(user_id, from_cache=False)
GetTransactions(trs, n, u) ==
  SelectSeq(trs[n], LAMBDA d : d.from_user = u \/ d.to_user = u)

----------------------------------------------------------------------------
(* models/transaction.py *)

NewTransaction(type, from, to, amount) ==
  [type |-> type, from_user |-> from, to_user |-> to, amount |-> amount,
   status |-> "pending", completed_at |-> <<>>, error_message |-> ""]

\* a prepare phase that leaves the status of the record alone
MarkPreparedForgotten(t) == t

MarkPrepared(t) == [t EXCEPT !.status = "prepared"]

MarkCommitted(t) ==
  [t EXCEPT !.status = "committed", !.completed_at = <<now>>]

\* an abort that leaves the completion timestamp alone
MarkAbortedNoStamp(t, reason) ==
  [t EXCEPT !.status = "aborted", !.error_message = reason]

MarkAborted(t, reason) ==
  [t EXCEPT !.status = "aborted", !.error_message = reason,
            !.completed_at = <<now>>]

MarkFailed(t, error) ==
  [t EXCEPT !.status = "failed", !.error_message = error,
            !.completed_at = <<now>>]

\* Transaction.to_dict(), with the field add_transaction stamps on
ToDict(i) ==
  [transaction_id |-> i, type |-> records[i].type,
   from_user |-> records[i].from_user, to_user |-> records[i].to_user,
   amount |-> records[i].amount, status |-> records[i].status,
   node_id |-> ""]

----------------------------------------------------------------------------
(* simulation/network_simulator.py *)

\* NetworkSimulator._get_latency without the jitter factor
BaseLatency(tables, m, from, to) ==
  IF from = to THEN 0
  ELSE IF <<from, to>> \in DOMAIN tables[m] THEN tables[m][<<from, to>>]
  ELSE IF <<to, from>> \in DOMAIN tables[m] THEN tables[m][<<to, from>>]
  ELSE DefaultLatency

\* NetworkSimulator._is_packet_lost: can the draw of random() lose the packet
CanLose == PACKET_LOSS[mode] > 0

\* ... and can it let the packet through
CanPass == PACKET_LOSS[mode] < LossScale

\* the outcomes of send_message: TRUE is a response, FALSE is None.  A
\* packet that is not lost is delivered after time.sleep(latency); for an
\* infinite latency time.sleep raises OverflowError, which send_message
\* catches, and the message is delivered all the same.
SendOutcome(d) == d \in BOOLEAN /\ (d => CanPass) /\ (~d => CanLose)

LogEntry(from, to, type, d) ==
  [from |-> from, to |-> to, type |-> type, success |-> d]

\* NetworkSimulator.simulate_partition on the table the simulator holds
SimulatePartition(tables, m, n1, n2) ==
  [tables EXCEPT ![m] = DictSet(DictSet(tables[m], <<n1, n2>>, Inf),
                                <<n2, n1>>, Inf)]

\* NetworkSimulator.heal_partition: the values are read from the table
\* LATENCIES['normal'] as it is when the call is made
HealKey(tables, m, k) ==
  IF k \in DOMAIN tables["normal"]
  THEN [tables EXCEPT ![m] = DictSet(tables[m], k, tables["normal"][k])]
  ELSE tables

HealPartitionNet(tables, m, n1, n2) ==
  HealKey(HealKey(tables, m, <<n1, n2>>), m, <<n2, n1>>)

----------------------------------------------------------------------------
(* State after construction: run_simulation.initialize_nodes *)

NoResult == [none |-> TRUE]

NoCall == [op |-> "none"]

Snapshot == [accounts |-> accounts, transactions |-> transactions,
             cache |-> cache, log |-> communication_log,
             nrecords |-> Len(records)]

InitNodes ==
  /\ accounts = [n \in Nodes |-> SeedAccounts]
  /\ transactions = [n \in Nodes |-> <<>>]
  /\ cache = [n \in Nodes |-> EmptyDict]
  /\ can_reach = [n \in Nodes |-> [m \in Nodes |-> TRUE]]
  /\ state = [n \in Nodes |-> "healthy"]
  /\ last_heartbeat = [n \in Nodes |-> 0]
  /\ now = 0

InitRest ==
  /\ LATENCIES = ConfigLatencies
  /\ communication_log = <<>>
  /\ records = <<>>
  /\ committed_transactions = {}
  /\ aborted_transactions = {}
  /\ partition_active = FALSE
  /\ pc = "idle"
  /\ call = NoCall
  /\ result = NoResult
  /\ tx = 0
  /\ idx = 0
  /\ votes = EmptyDict
  /\ phase_start = 0
  /\ commit_acks = EmptyDict
  /\ commit_base = <<>>
  /\ pre = [accounts |-> [n \in Nodes |-> SeedAccounts],
            transactions |-> [n \in Nodes |-> <<>>],
            cache |-> [n \in Nodes |-> EmptyDict],
            log |-> <<>>, nrecords |-> 0]
  /\ ncalls = 0

\* the driver builds NetworkSimulator('normal') and one strategy object
Init ==
  /\ InitNodes
  /\ InitRest
  /\ mode = "normal"
  /\ strategy \in Strategies

----------------------------------------------------------------------------
(* Time *)

\* the calls that leave the data of the nodes and of the services alone
Frame == UNCHANGED <<accounts, transactions, cache, records,
                     committed_transactions, aborted_transactions,
                     last_heartbeat, strategy>>

TickTo(t) ==
  /\ t > now
  /\ now' = t
  /\ Frame
  /\ UNCHANGED <<can_reach, state, LATENCIES, mode, communication_log,
                 partition_active, pc, call, result, tx, idx, votes,
                 phase_start, commit_acks, commit_base, pre, ncalls>>

\* an operation of a strategy starts: the driver is between two calls
CallStart ==
  /\ pc = "idle"
  /\ ncalls < MaxCalls
  /\ ncalls' = ncalls + 1
  /\ pre' = Snapshot

\* the locals of the transfer loops, when no transfer runs
NoLoop ==
  /\ idx' = 0
  /\ votes' = EmptyDict
  /\ phase_start' = 0
  /\ commit_acks' = EmptyDict
  /\ commit_base' = <<>>

----------------------------------------------------------------------------
(* simulation/partition_simulator.py *)

CreatePartition(n1, n2) ==
  /\ pc = "idle"
  /\ pre' = Snapshot
  /\ call' = [op |-> "create_partition", node1 |-> n1, node2 |-> n2]
  /\ LATENCIES' = SimulatePartition(LATENCIES, mode, n1, n2)
  /\ can_reach' = [can_reach EXCEPT ![n1][n2] = FALSE, ![n2][n1] = FALSE]
  /\ state' = [state EXCEPT ![n1] = "isolated", ![n2] = "isolated"]
  /\ partition_active' = TRUE
  /\ tx' = 0
  /\ NoLoop
  /\ Frame
  /\ UNCHANGED <<now, mode, communication_log, pc, result, ncalls>>

\* a heal that brings back the first node only
HealedStateFirst(st, n1, n2) == [st EXCEPT ![n1] = "healthy"]

\* PartitionSimulator.heal_partition, lines 65-66: the states of the nodes
HealedState(st, n1, n2) == [st EXCEPT ![n1] = "healthy", ![n2] = "healthy"]

\* PartitionSimulator._synchronize_nodes: a delay and three lines on the
\* console; the accounts of the two nodes are left as they are
SynchronizeNodes(acc, n1, n2) == acc

\* a heal that takes the healed nodes as just heard from
HeartbeatRefreshed(hb, n1, n2) == [hb EXCEPT ![n1] = now, ![n2] = now]

\* PartitionSimulator.heal_partition: the heartbeats of the nodes; the heal
\* sets the states and does not call update_heartbeat
HeartbeatAfterHeal(hb, n1, n2) == hb

HealPartition(n1, n2) ==
  /\ pc = "idle"
  /\ pre' = Snapshot
  /\ call' = [op |-> "heal_partition", node1 |-> n1, node2 |-> n2]
  /\ LATENCIES' = HealPartitionNet(LATENCIES, mode, n1, n2)
  /\ can_reach' = [can_reach EXCEPT ![n1][n2] = TRUE, ![n2][n1] = TRUE]
  /\ state' = HealedState(state, n1, n2)
  /\ partition_active' = FALSE
  /\ accounts' = SynchronizeNodes(accounts, n1, n2)
  /\ tx' = 0
  /\ NoLoop
  /\ last_heartbeat' = HeartbeatAfterHeal(last_heartbeat, n1, n2)
  /\ UNCHANGED <<transactions, cache, records, committed_transactions,
                 aborted_transactions, strategy, now, mode,
                 communication_log, pc, result, ncalls>>

----------------------------------------------------------------------------
(* strategies: the dicts returned when the master cannot be reached *)

PureCPDenial(reason) ==
  [success |-> FALSE, error |-> "Service temporarily unavailable",
   reason |-> reason, strategy |-> "CP_STRICT"]

\* a denial of the Adaptive strategy as bare as the one of Pure CP
AdaptiveTransferDenialBare ==
  [success |-> FALSE, error |-> "Transferts temporairement indisponibles",
   reason |-> "Probleme de connexion reseau detecte",
   strategy |-> "ADAPTIVE_CP"]

AdaptiveTransferDenial ==
  [success |-> FALSE, error |-> "Transferts temporairement indisponibles",
   reason |-> "Probleme de connexion reseau detecte",
   message |-> "transferts suspendus",
   available_actions |-> <<"consulter_solde", "voir_historique">>,
   strategy |-> "ADAPTIVE_CP"]

----------------------------------------------------------------------------
(* services/transfer_service.py *)

\* a prepare phase that asks the master only
ParticipantsMasterOnly == <<Master>>

\* participants = [master_node] + replica_nodes
Participants == <<Master>> \o ReplicaNodes

\* pre-checks that look at the accounts and not at the balance
PreChecksAccountsOnly(from, to, amount) ==
  /\ HasAccount(accounts, Master, from)
  /\ HasAccount(accounts, Master, to)

\* TransferService._pre_checks
PreChecks(from, to, amount) ==
  /\ HasAccount(accounts, Master, from)
  /\ ~(accounts[Master][from] < amount)
  /\ HasAccount(accounts, Master, to)

\* a prepare check in which the replicas vote YES whatever their health
CanNodePrepareReplicaAlways(n, t) ==
  IF IsMaster(n)
  THEN IsHealthy(n) /\ accounts[n][t.from_user] >= t.amount
  ELSE TRUE

\* a prepare check that lets only the nodes that can write vote YES
CanNodePrepareWriters(n, t) ==
  IF ~IsHealthy(n) THEN FALSE
  ELSE IF IsMaster(n) THEN accounts[n][t.from_user] >= t.amount
  ELSE CanWrite(n)

\* TransferService._can_node_prepare: the value returned
CanNodePrepare(n, t) ==
  IF ~IsHealthy(n) THEN FALSE
  ELSE IF IsMaster(n) THEN accounts[n][t.from_user] >= t.amount
  ELSE TRUE

\* the vote _prepare_phase records for a participant; d is the outcome of
\* its prepare message
Vote(n, t, d) == IF d /\ CanNodePrepare(n, t) THEN "YES" ELSE "NO"

\* any(...) in the place of all(...)
AnyYes(v) == \E n \in DOMAIN v : v[n] = "YES"

\* all(vote == 'YES' for vote in votes.values())
AllYes(v) == \A n \in DOMAIN v : v[n] = "YES"

\* node.get_balance(user) or fallback: None and 0 both give the fallback
BalanceOr(acc, n, u, fallback) ==
  IF HasAccount(acc, n, u) /\ acc[n][u] # 0 THEN acc[n][u] ELSE fallback

\* a commit phase that applies the transfer whatever the response
ResponseAny(d) == TRUE

\* _commit_phase, line 217: if response
ResponseOk(d) == d

\* an abort that does not enter the record in aborted_transactions
AbortTransactionUnlisted(reason) ==
  /\ records' = [records EXCEPT ![tx] = MarkAborted(@, reason)]
  /\ result' = [success |-> FALSE, transaction_id |-> tx, error |-> reason]
  /\ pc' = "idle"
  /\ UNCHANGED <<committed_transactions, aborted_transactions>>

\* TransferService._abort_transaction
AbortTransaction(reason) ==
  /\ records' = [records EXCEPT ![tx] = MarkAborted(@, reason)]
  /\ aborted_transactions' = aborted_transactions \cup {tx}
  /\ result' = [success |-> FALSE, transaction_id |-> tx, error |-> reason]
  /\ pc' = "idle"
  /\ UNCHANGED committed_transactions

\* TransferService.transfer, lines 63-76: the phases succeeded
TransferSucceeds ==
  /\ records' = [records EXCEPT ![tx] = MarkCommitted(@)]
  /\ committed_transactions' = committed_transactions \cup {tx}
  /\ result' = [success |-> TRUE, transaction_id |-> tx, latency_ms |-> 0,
                new_balance_from |-> accounts[Master][records[tx].from_user],
                new_balance_to |-> accounts[Master][records[tx].to_user]]
  /\ pc' = "idle"
  /\ UNCHANGED aborted_transactions

\* a Pure CP strategy that also blocks through a node that is not healthy
TransferDeniedStrictUnhealthy(strat, n) ==
  ~CanReachMaster(n) \/ (strat = "CP" /\ ~IsHealthy(n))

\* execute_transfer of strategy strat: if not node.can_reach_master(...)
TransferDenied(strat, n) == ~CanReachMaster(n)

\* execute_transfer of strategy strat, up to the end of the pre-checks of
\* TransferService.transfer
ExecuteTransferAs(strat, n, from, to, amount) ==
  /\ CallStart
  /\ call' = [op |-> "transfer", node |-> n, from_user |-> from,
              to_user |-> to, amount |-> amount]
  /\ IF TransferDenied(strat, n)
     THEN /\ result' = IF strat = "CP"
                       THEN PureCPDenial(
                              "Cannot reach master node (network partition)")
                       ELSE AdaptiveTransferDenial
          /\ tx' = 0
          /\ NoLoop
          /\ UNCHANGED <<records, committed_transactions,
                         aborted_transactions, pc>>
     ELSE LET t == NewTransaction("transfer", from, to, amount)
              i == Len(records) + 1
          IN /\ tx' = i
             /\ idx' = 1
             /\ votes' = EmptyDict
             /\ phase_start' = now
             /\ commit_acks' = EmptyDict
             /\ commit_base' = <<>>
             /\ IF PreChecks(from, to, amount)
                THEN /\ records' = Append(records, t)
                     /\ pc' = "prepare"
                     /\ result' = NoResult
                     /\ UNCHANGED <<committed_transactions,
                                    aborted_transactions>>
                ELSE /\ records' = Append(records,
                                          MarkAborted(t, "Pre-checks failed"))
                     /\ aborted_transactions' = aborted_transactions \cup {i}
                     /\ result' = [success |-> FALSE, transaction_id |-> i,
                                   error |-> "Pre-checks failed"]
                     /\ pc' = "idle"
                     /\ UNCHANGED committed_transactions
  /\ UNCHANGED <<accounts, transactions, cache, can_reach, state,
                 last_heartbeat, now, LATENCIES, mode, communication_log,
                 partition_active, strategy>>

\* execute_transfer of the strategy the simulation runs
ExecuteTransfer(n, from, to, amount) ==
  ExecuteTransferAs(strategy, n, from, to, amount)

\* a deadline that compares seconds to the timeout in milliseconds
PrepareDeadlineInMillis == now - phase_start > TransferTimeout * 1000

\* _prepare_phase, line 120: time.time() - start_time > timeout
PrepareDeadlinePassed == now - phase_start > TransferTimeout

\* a prepare loop that stops at the first NO
MoreParticipantsUntilNo(i, v) == i < Len(Participants) /\ AllYes(v)

\* _prepare_phase, line 118: for node in participants; the loop has no
\* break, the votes v are looked at after it
MoreParticipants(i, v) == i < Len(Participants)

\* one iteration of the loop of _prepare_phase, and the count of the votes
\* after the last one; d is the outcome of the prepare message
PrepareStep(d) ==
  /\ pc = "prepare"
  /\ idx <= Len(Participants)
  /\ IF PrepareDeadlinePassed
     THEN /\ d
          /\ AbortTransaction("Timeout: Prepare phase timeout")
          /\ UNCHANGED <<state, communication_log, idx, votes>>
     ELSE LET node == Participants[idx]
              v == DictSet(votes, node, Vote(node, records[tx], d))
          IN /\ SendOutcome(d)
             /\ communication_log' =
                  Append(communication_log,
                         LogEntry(Master, node, "prepare", d))
             /\ state' = IF d THEN StateAfterIsHealthy(state, node)
                         ELSE state
             /\ votes' = v
             /\ idx' = idx + 1
             /\ IF MoreParticipants(idx, v)
                THEN UNCHANGED <<records, committed_transactions,
                                 aborted_transactions, pc, result>>
                ELSE IF AllYes(v)
                THEN /\ records' = [records EXCEPT ![tx] = MarkPrepared(@)]
                     /\ pc' = "commit"
                     /\ UNCHANGED <<committed_transactions,
                                    aborted_transactions, result>>
                ELSE AbortTransaction("Prepare phase failed")
  /\ UNCHANGED <<accounts, transactions, cache, can_reach, last_heartbeat,
                 now, LATENCIES, mode, partition_active, call, tx,
                 phase_start, commit_acks, commit_base, pre, strategy,
                 ncalls>>

\* _commit_phase, lines 179-195: the master applies the transfer
CommitMaster ==
  /\ pc = "commit"
  /\ LET t == records[tx]
         from_balance == accounts[Master][t.from_user]
         to_balance == accounts[Master][t.to_user]
         acc1 == SetBalanceAccounts(accounts, Master, t.from_user,
                                    from_balance - t.amount)
         acc2 == SetBalanceAccounts(acc1, Master, t.to_user,
                                    to_balance + t.amount)
     IN /\ accounts' = acc2
        /\ cache' = SetBalanceCache(SetBalanceCache(cache, Master,
                                                    t.from_user),
                                    Master, t.to_user)
        /\ transactions' = AddTransaction(transactions, Master, ToDict(tx))
        /\ commit_base' = <<from_balance, to_balance>>
  /\ pc' = "replicate"
  /\ idx' = 1
  /\ phase_start' = now
  /\ UNCHANGED <<can_reach, state, last_heartbeat, now, LATENCIES, mode,
                 communication_log, records, committed_transactions,
                 aborted_transactions, partition_active, call, result, tx,
                 votes, commit_acks, pre, strategy, ncalls>>

\* a deadline that compares seconds to the timeout in milliseconds
CommitDeadlineInMillis == now - phase_start > TransferTimeout * 1000

\* _commit_phase, line 199: time.time() - start_time > timeout
CommitDeadlinePassed == now - phase_start > TransferTimeout

\* one iteration of the replication loop of _commit_phase, and the return
\* of transfer after the last one; d is the outcome of the commit message
ReplicateStep(d) ==
  /\ pc = "replicate"
  /\ idx <= Len(ReplicaNodes)
  /\ IF CommitDeadlinePassed
     THEN /\ d
          /\ TransferSucceeds
          /\ UNCHANGED <<accounts, transactions, cache, communication_log,
                         idx, commit_acks>>
     ELSE LET node == ReplicaNodes[idx]
              t == records[tx]
              from_bal == BalanceOr(accounts, node, t.from_user,
                                    commit_base[1])
              to_bal == BalanceOr(accounts, node, t.to_user, commit_base[2])
              acc1 == SetBalanceAccounts(accounts, node, t.from_user,
                                         from_bal - t.amount)
              acc2 == SetBalanceAccounts(acc1, node, t.to_user,
                                         to_bal + t.amount)
          IN /\ SendOutcome(d)
             /\ communication_log' =
                  Append(communication_log,
                         LogEntry(Master, node, "commit", d))
             /\ IF ResponseOk(d)
                THEN /\ accounts' = acc2
                     /\ cache' = SetBalanceCache(
                                   SetBalanceCache(cache, node, t.from_user),
                                   node, t.to_user)
                     /\ transactions' =
                          AddTransaction(transactions, node, ToDict(tx))
                ELSE UNCHANGED <<accounts, transactions, cache>>
             /\ commit_acks' = DictSet(commit_acks, node, d)
             /\ idx' = idx + 1
             /\ IF idx < Len(ReplicaNodes)
                THEN UNCHANGED <<records, committed_transactions,
                                 aborted_transactions, pc, result>>
                ELSE TransferSucceeds
  /\ UNCHANGED <<can_reach, state, last_heartbeat, now, LATENCIES, mode,
                 partition_active, call, tx, votes, phase_start, commit_base,
                 pre, strategy, ncalls>>

----------------------------------------------------------------------------
(* services/balance_service.py *)

\* a result left as the service returned it
WithoutKeys(r, extra) == r

\* result[k] = v for the keys of extra
WithKeys(r, extra) == extra @@ r

\* Node.get_balance: <<>> is None, <<v>> the balance v.  With from_cache a
\* live cache entry is returned, and otherwise the account is read
GetBalance(c, acc, n, u, from_cache) ==
  IF from_cache /\ CacheHit(c, n, BalanceKey(u))
  THEN <<c[n][BalanceKey(u)].value>>
  ELSE IF HasAccount(acc, n, u) THEN <<acc[n][u]>>
  ELSE <<>>

\* BalanceService._get_balance_ap: the dict returned
BalanceAPResult(n, u) ==
  LET first == GetBalance(cache, accounts, n, u, TRUE)
      c1 == CacheAfterGet(cache, n, BalanceKey(u))
      second == GetBalance(c1, accounts, n, u, FALSE)
  IN IF first # <<>>
     THEN [success |-> TRUE, balance |-> first[1], source |-> "cache",
           latency_ms |-> 0, freshness |-> "cached"]
     ELSE IF second # <<>>
     THEN [success |-> TRUE, balance |-> second[1],
           source |-> "replica_local", latency_ms |-> 0,
           freshness |-> "recent", warning |-> "retard"]
     ELSE [success |-> FALSE, error |-> "Account not found",
           latency_ms |-> 0]

\* BalanceService._get_balance_ap: the caches afterwards
BalanceAPCache(n, u) ==
  LET first == GetBalance(cache, accounts, n, u, TRUE)
      c1 == CacheAfterGet(cache, n, BalanceKey(u))
      second == GetBalance(c1, accounts, n, u, FALSE)
  IN IF first # <<>> THEN c1
     ELSE IF second # <<>>
     THEN SetCache(c1, n, BalanceKey(u), second[1], BalanceTTL)
     ELSE c1

\* BalanceService._get_balance_cp; d is the outcome of the balance_query
\* message
BalanceCPResult(n, u, d) ==
  IF ~CanReachMaster(n)
  THEN [success |-> FALSE, error |-> "Service temporarily unavailable",
        reason |-> "Cannot reach master node", latency_ms |-> 0]
  ELSE IF ~d
  THEN [success |-> FALSE, error |-> "Service temporarily unavailable",
        latency_ms |-> 0]
  ELSE IF HasAccount(accounts, Master, u)
  THEN [success |-> TRUE, balance |-> accounts[Master][u],
        source |-> "master", latency_ms |-> 0,
        freshness |-> "guaranteed_accurate"]
  ELSE [success |-> FALSE, error |-> "Account not found", latency_ms |-> 0]

\* the balance_query message of _get_balance_cp
BalanceCPLog(n, d) ==
  IF ~CanReachMaster(n) THEN communication_log
  ELSE Append(communication_log, LogEntry(n, Master, "balance_query", d))

\* execute_balance_query of the strategy; the Pure CP strategy has no
\* context argument
ExecuteBalanceQuery(n, u, context, d) ==
  /\ CallStart
  /\ call' = [op |-> "balance", node |-> n, user |-> u, context |-> context]
  /\ tx' = 0
  /\ NoLoop
  /\ strategy = "CP" => context = "display"
  /\ IF strategy = "CP" \/ context = "pre_transfer"
     THEN IF ~CanReachMaster(n)
          THEN /\ d
               /\ result' = IF strategy = "CP"
                            THEN PureCPDenial("Cannot reach master node")
                            ELSE [success |-> FALSE,
                                  error |-> "Cannot verify balance",
                                  strategy |-> "ADAPTIVE_CP"]
               /\ UNCHANGED <<cache, communication_log>>
          ELSE /\ SendOutcome(d)
               /\ result' = BalanceCPResult(n, u, d)
               /\ communication_log' = BalanceCPLog(n, d)
               /\ UNCHANGED cache
     ELSE /\ d
          /\ result' = IF ~CanReachMaster(n)
                       THEN WithKeys(BalanceAPResult(n, u),
                                     [warning |-> "donnees locales",
                                      partition_mode |-> TRUE])
                       ELSE BalanceAPResult(n, u)
          /\ cache' = BalanceAPCache(n, u)
          /\ UNCHANGED communication_log
  /\ UNCHANGED <<accounts, transactions, can_reach, state, last_heartbeat,
                 now, LATENCIES, mode, records, committed_transactions,
                 aborted_transactions, partition_active, pc, strategy>>

----------------------------------------------------------------------------
(* services/history_service.py *)

\* seq[:k]
Limit(seq, k) == IF Len(seq) <= k THEN seq ELSE SubSeq(seq, 1, k)

\* HistoryService.get_history on node n: the dict returned
HistoryResult(n, u) ==
  IF CacheHit(cache, n, HistoryKey(u))
  THEN [success |-> TRUE,
        transactions |-> Limit(cache[n][HistoryKey(u)].value, HistoryLimit),
        count |-> Len(cache[n][HistoryKey(u)].value),
        source |-> "cache", latency_ms |-> 0]
  ELSE IF GetTransactions(transactions, n, u) # <<>>
  THEN [success |-> TRUE,
        transactions |-> Limit(GetTransactions(transactions, n, u),
                               HistoryLimit),
        count |-> Len(GetTransactions(transactions, n, u)),
        source |-> "replica_local", latency_ms |-> 0,
        warning |-> "transactions recentes"]
  ELSE [success |-> TRUE, transactions |-> <<>>, count |-> 0,
        source |-> "replica_local", latency_ms |-> 0]

\* HistoryService.get_history on node n: the caches afterwards
HistoryCache(n, u) ==
  IF CacheHit(cache, n, HistoryKey(u)) THEN cache
  ELSE IF GetTransactions(transactions, n, u) # <<>>
  THEN SetCache(CacheAfterGet(cache, n, HistoryKey(u)), n, HistoryKey(u),
                GetTransactions(transactions, n, u), HistoryTTL)
  ELSE CacheAfterGet(cache, n, HistoryKey(u))

\* execute_history_query of the strategy
ExecuteHistoryQuery(n, u) ==
  /\ CallStart
  /\ call' = [op |-> "history", node |-> n, user |-> u]
  /\ tx' = 0
  /\ NoLoop
  /\ IF strategy = "CP"
     THEN IF ~CanReachMaster(n)
          THEN /\ result' = PureCPDenial("Cannot reach master node")
               /\ UNCHANGED cache
          ELSE /\ result' = HistoryResult(Master, u)
               /\ cache' = HistoryCache(Master, u)
     ELSE /\ result' = IF ~CanReachMaster(n)
                       THEN WithKeys(HistoryResult(n, u),
                                     [warning |-> "mode degrade",
                                      partition_mode |-> TRUE])
                       ELSE HistoryResult(n, u)
          /\ cache' = HistoryCache(n, u)
  /\ UNCHANGED <<accounts, transactions, can_reach, state, last_heartbeat,
                 now, LATENCIES, mode, communication_log, records,
                 committed_transactions, aborted_transactions,
                 partition_active, pc, strategy>>

----------------------------------------------------------------------------
(* services/payment_service.py *)

\* PaymentService._fail_payment: the dict returned
FailPaymentResult(i, reason) ==
  [success |-> FALSE, transaction_id |-> i, error |-> reason,
   latency_ms |-> 0]

\* transaction.to_dict() of a payment that is not yet in records
PaymentDict(i, t) ==
  [transaction_id |-> i, type |-> t.type, from_user |-> t.from_user,
   to_user |-> t.to_user, amount |-> t.amount, status |-> t.status,
   node_id |-> ""]

\* a replication loop that writes the replica whatever the response
PaymentResponseAny(d) == TRUE

\* _pay_bill_cp_strict, line 102: if response
PaymentResponseOk(d) == d

\* the replication loop of _pay_bill_cp_strict from replica k on; ds[k] is
\* the outcome of the payment_replicate message to replica k, d the dict
\* of the payment.  Every replica holds the accounts of the master (the
\* nodes are seeded alike and no account is ever removed), so the balance
\* read on the replica is a number.
RECURSIVE PaymentReplicate(_, _, _, _)
PaymentReplicate(nv, k, ds, d) ==
  IF k > Len(ReplicaNodes) THEN nv
  ELSE LET node == ReplicaNodes[k]
           log1 == Append(nv.log,
                          LogEntry(Master, node, "payment_replicate", ds[k]))
       IN IF PaymentResponseOk(ds[k])
          THEN PaymentReplicate(
                 [accounts |-> SetBalanceAccounts(
                                 nv.accounts, node, d.from_user,
                                 nv.accounts[node][d.from_user] - d.amount),
                  cache |-> SetBalanceCache(nv.cache, node, d.from_user),
                  transactions |-> AddTransaction(nv.transactions, node, d),
                  log |-> log1],
                 k + 1, ds, d)
          ELSE PaymentReplicate([nv EXCEPT !.log = log1], k + 1, ds, d)

\* a provider failure that leaves the debit in place
NotRolledBack(acc, u, balance) == acc

\* _pay_bill_cp_strict, line 85: master_node.set_balance(from_user, balance)
RolledBack(acc, u, balance) == SetBalanceAccounts(acc, Master, u, balance)

\* PaymentService._pay_bill_cp_strict; ok is the answer of the provider
PayBillCPStrict(i, t, ok, ds) ==
  LET balance == accounts[Master][t.from_user]
      debited == [accounts |-> SetBalanceAccounts(accounts, Master,
                                                  t.from_user,
                                                  balance - t.amount),
                  cache |-> SetBalanceCache(cache, Master, t.from_user),
                  transactions |-> AddTransaction(transactions, Master,
                                                  PaymentDict(i, t)),
                  log |-> communication_log]
      nv == PaymentReplicate(debited, 1, ds, PaymentDict(i, t))
  IN IF ~ok
     THEN /\ \A k \in DOMAIN ds : ds[k]
          /\ accounts' = RolledBack(debited.accounts, t.from_user, balance)
          /\ cache' = SetBalanceCache(debited.cache, Master, t.from_user)
          /\ records' = Append(records, MarkFailed(t, "Provider API failed"))
          /\ result' = FailPaymentResult(i, "Provider API failed")
          /\ UNCHANGED <<transactions, communication_log>>
     ELSE /\ \A k \in DOMAIN ds : SendOutcome(ds[k])
          /\ accounts' = nv.accounts
          /\ cache' = nv.cache
          /\ transactions' = nv.transactions
          /\ communication_log' = nv.log
          /\ records' = Append(records, MarkCommitted(t))
          /\ result' = [success |-> TRUE, transaction_id |-> i,
                        receipt_id |-> "RCPT", latency_ms |-> 0,
                        new_balance |-> nv.accounts[Master][t.from_user]]

\* a queue mode that takes the amount 5000 too
IsQueuedAmountInclusive(amount) == amount <= PaymentThreshold

\* _pay_bill_adaptive, line 129: if transaction.amount < 5000
IsQueuedAmount(amount) == amount < PaymentThreshold

\* PaymentService._pay_bill_adaptive
PayBillAdaptive(i, t, ok, ds) ==
  IF IsQueuedAmount(t.amount)
  THEN /\ ok
       /\ \A k \in DOMAIN ds : ds[k]
       /\ accounts' = SetBalanceAccounts(
                        accounts, Master, t.from_user,
                        accounts[Master][t.from_user] - t.amount)
       /\ cache' = SetBalanceCache(cache, Master, t.from_user)
       /\ records' = Append(records, MarkCommitted(t))
       /\ result' = [success |-> TRUE, transaction_id |-> i,
                     status |-> "pending", message |-> "en cours",
                     latency_ms |-> 0,
                     new_balance |-> accounts[Master][t.from_user]
                                       - t.amount]
       /\ UNCHANGED <<transactions, communication_log>>
  ELSE PayBillCPStrict(i, t, ok, ds)

\* a balance check that refuses only the accounts that hold nothing
InsufficientBalanceEmptyOnly(u, amount) ==
  ~HasAccount(accounts, Master, u) \/ accounts[Master][u] <= 0

\* a balance check that only looks for the account
InsufficientBalanceMissingOnly(u, amount) == ~HasAccount(accounts, Master, u)

\* pay_bill, lines 54-55: balance is None or balance < amount
InsufficientBalance(u, amount) ==
  ~HasAccount(accounts, Master, u) \/ accounts[Master][u] < amount

\* PaymentService.pay_bill
PayBill(u, provider, amount, strat, ok, ds) ==
  LET t == NewTransaction("payment", u, provider, amount)
      i == Len(records) + 1
  IN /\ tx' = i
     /\ IF InsufficientBalance(u, amount)
        THEN /\ ok
             /\ \A k \in DOMAIN ds : ds[k]
             /\ records' = Append(records,
                                  MarkFailed(t, "Insufficient balance"))
             /\ result' = FailPaymentResult(i, "Insufficient balance")
             /\ UNCHANGED <<accounts, transactions, cache,
                            communication_log>>
        ELSE IF strat = "CP"
        THEN PayBillCPStrict(i, t, ok, ds)
        ELSE PayBillAdaptive(i, t, ok, ds)

\* a threshold that lets the amount 5000 through
IsSmallPaymentInclusive(amount) == amount <= PaymentThreshold

\* AdaptiveStrategy.execute_payment, line 130: if amount < 5000
IsSmallPayment(amount) == amount < PaymentThreshold

\* a strategy without queue mode: every payment is refused when the master
\* cannot be reached
AdaptivePaymentRefusal(amount) ==
  [success |-> FALSE,
   error |-> "Paiements gros montants temporairement indisponibles",
   reason |-> "Probleme de connexion reseau",
   message |-> "connexion securisee requise", strategy |-> "ADAPTIVE"]

\* the dict of AdaptiveStrategy.execute_payment when the master cannot be
\* reached
AdaptivePaymentDenial(amount) ==
  IF IsSmallPayment(amount)
  THEN [success |-> TRUE, transaction_id |-> "queue", status |-> "queued",
        message |-> "file d'attente", warning |-> "traitement differe",
        partition_mode |-> TRUE, strategy |-> "ADAPTIVE_AP_QUEUE"]
  ELSE [success |-> FALSE,
        error |-> "Paiements gros montants temporairement indisponibles",
        reason |-> "Probleme de connexion reseau",
        message |-> "connexion securisee requise", strategy |-> "ADAPTIVE"]

\* execute_payment of the strategy
ExecutePayment(n, u, provider, amount, ok, ds) ==
  /\ CallStart
  /\ call' = [op |-> "payment", node |-> n, user |-> u,
              provider |-> provider, amount |-> amount, provider_ok |-> ok]
  /\ NoLoop
  /\ IF ~CanReachMaster(n)
     THEN /\ ok
          /\ \A k \in DOMAIN ds : ds[k]
          /\ tx' = 0
          /\ result' = IF strategy = "CP"
                       THEN PureCPDenial("Cannot reach master node")
                       ELSE AdaptivePaymentDenial(amount)
          /\ UNCHANGED <<accounts, transactions, cache, communication_log,
                         records>>
     ELSE PayBill(u, provider, amount, strategy, ok, ds)
  /\ UNCHANGED <<can_reach, state, last_heartbeat, now, LATENCIES, mode,
                 committed_transactions, aborted_transactions,
                 partition_active, pc, strategy>>

----------------------------------------------------------------------------
(* The simulation: the calls of the driver, one after the other *)

Deliveries == [1..Len(ReplicaNodes) -> BOOLEAN]

Next ==
  \/ \E t \in TimePoints : TickTo(t)
  \/ \E p \in PartitionPairs : CreatePartition(p[1], p[2])
  \/ \E p \in PartitionPairs : HealPartition(p[1], p[2])
  \/ \E n \in CallNodes, from \in AllUsers, to \in AllUsers,
        amount \in TransferAmounts : ExecuteTransfer(n, from, to, amount)
  \/ \E d \in BOOLEAN : PrepareStep(d)
  \/ CommitMaster
  \/ \E d \in BOOLEAN : ReplicateStep(d)
  \/ \E n \in CallNodes, u \in AllUsers, c \in Contexts, d \in BOOLEAN :
        ExecuteBalanceQuery(n, u, c, d)
  \/ \E n \in CallNodes, u \in AllUsers : ExecuteHistoryQuery(n, u)
  \/ \E n \in CallNodes, u \in AllUsers, p \in Providers,
        amount \in PaymentAmounts, ok \in BOOLEAN, ds \in Deliveries :
        ExecutePayment(n, u, p, amount, ok, ds)

Spec == Init /\ [][Next]_vars

----------------------------------------------------------------------------
(* The network scenario: the simulator is built in any mode, and the mode
   changes, pairs are partitioned and healed and messages are sent in any
   order *)

\* NetworkSimulator.set_mode
SetMode(m) ==
  /\ pc = "idle"
  /\ pre' = Snapshot
  /\ call' = [op |-> "set_mode", mode |-> m]
  /\ mode' = m
  /\ tx' = 0
  /\ NoLoop
  /\ Frame
  /\ UNCHANGED <<can_reach, state, now, LATENCIES, communication_log,
                 partition_active, pc, result, ncalls>>

\* NetworkSimulator(m) is built again, as the driver does between its two
\* simulations: the new object starts with an empty log and takes as its
\* latencies the table LATENCIES[m] of the module, as it is by then
NewSimulator(m) ==
  /\ pc = "idle"
  /\ pre' = Snapshot
  /\ call' = [op |-> "new_simulator", mode |-> m]
  /\ mode' = m
  /\ communication_log' = <<>>
  /\ tx' = 0
  /\ NoLoop
  /\ Frame
  /\ UNCHANGED <<can_reach, state, now, LATENCIES, partition_active, pc,
                 result, ncalls>>

\* NetworkSimulator.send_message called on its own; d is its outcome
SendMessage(from, to, type, d) ==
  /\ pc = "idle"
  /\ Len(communication_log) < MaxLog
  /\ SendOutcome(d)
  /\ pre' = Snapshot
  /\ call' = [op |-> "send_message", from_node |-> from, to_node |-> to,
              message_type |-> type]
  /\ communication_log' = Append(communication_log,
                                 LogEntry(from, to, type, d))
  /\ result' = IF d THEN [status |-> "success", latency_ms |-> 0,
                          payload |-> type]
               ELSE NoResult
  /\ tx' = 0
  /\ NoLoop
  /\ Frame
  /\ UNCHANGED <<can_reach, state, now, LATENCIES, mode, partition_active,
                 pc, ncalls>>

\* the pairs messages are sent between: the pairs of the scenario and the
\* master to itself
SendPairs == NetPairs \cup {<<Master, Master>>}

InitNet ==
  /\ InitNodes
  /\ InitRest
  /\ mode \in Modes
  /\ strategy = "CP"

NextNet ==
  \/ \E m \in Modes : SetMode(m)
  \/ \E m \in Modes : NewSimulator(m)
  \/ \E p \in NetPairs : CreatePartition(p[1], p[2])
  \/ \E p \in NetPairs : HealPartition(p[1], p[2])
  \/ \E p \in SendPairs, d \in BOOLEAN :
        SendMessage(p[1], p[2], "prepare", d)

SpecNet == InitNet /\ [][NextNet]_vars

----------------------------------------------------------------------------
(* The scenarios on one class start from the nodes of the driver and a
   network in normal mode *)

InitUnit ==
  /\ InitNodes
  /\ InitRest
  /\ mode = "normal"
  /\ strategy = "CP"

----------------------------------------------------------------------------
(* The history scenario: records are added to the histories of the nodes
   and the histories are queried, in any order *)

\* the dicts added to a history: a payment of each seeded user and a
\* transfer between them, as to_dict gives them when the services add
\* them; i is the id of the record
HistoryDicts(i) ==
  {PaymentDict(i, NewTransaction("payment", u, "SENELEC", 2000)) :
     u \in DOMAIN SeedAccounts}
  \cup {PaymentDict(i, MarkPrepared(NewTransaction("transfer", "user_001",
                                                   "user_002", 3000)))}

\* the nodes of the history scenario
HistoryNodes == {"DAKAR", "SAINT_LOUIS"}

\* number of records in the histories of all nodes
RECURSIVE TotalAdded(_)
TotalAdded(S) ==
  IF S = {} THEN 0
  ELSE LET n == CHOOSE x \in S : TRUE
       IN Len(transactions[n]) + TotalAdded(S \ {n})

\* Node.add_transaction called on node n with the dict d
NodeAddTransaction(n, d) ==
  /\ pc = "idle"
  /\ TotalAdded(Nodes) < MaxAdds
  /\ pre' = Snapshot
  /\ call' = [op |-> "add_transaction", node |-> n,
              from_user |-> d.from_user, to_user |-> d.to_user]
  /\ transactions' = AddTransaction(transactions, n, d)
  /\ tx' = 0
  /\ NoLoop
  /\ UNCHANGED <<accounts, cache, can_reach, state, last_heartbeat, now,
                 LATENCIES, mode, communication_log, records,
                 committed_transactions, aborted_transactions,
                 partition_active, pc, result, strategy, ncalls>>

\* HistoryService.get_history called on node n for user u
GetHistory(n, u) ==
  /\ pc = "idle"
  /\ pre' = Snapshot
  /\ call' = [op |-> "get_history", node |-> n, user |-> u]
  /\ result' = HistoryResult(n, u)
  /\ cache' = HistoryCache(n, u)
  /\ tx' = 0
  /\ NoLoop
  /\ UNCHANGED <<accounts, transactions, can_reach, state, last_heartbeat,
                 now, LATENCIES, mode, communication_log, records,
                 committed_transactions, aborted_transactions,
                 partition_active, pc, strategy, ncalls>>

NextHistory ==
  \/ \E t \in TimePoints : TickTo(t)
  \/ \E n \in HistoryNodes, d \in HistoryDicts(TotalAdded(Nodes) + 1) :
        NodeAddTransaction(n, d)
  \/ \E n \in HistoryNodes, u \in DOMAIN SeedAccounts : GetHistory(n, u)

SpecHistory == InitUnit /\ [][NextHistory]_vars

----------------------------------------------------------------------------
(* The record scenario: Transaction objects are created and their marking
   methods are called in any order *)

\* Transaction(...) is constructed
CreateRecord(type, from, to, amount) ==
  /\ pc = "idle"
  /\ Len(records) < MaxRecords
  /\ records' = Append(records, NewTransaction(type, from, to, amount))
  /\ call' = [op |-> "create_record", record |-> Len(records) + 1]
  /\ UNCHANGED <<accounts, transactions, cache, can_reach, state,
                 last_heartbeat, now, LATENCIES, mode, communication_log,
                 committed_transactions, aborted_transactions,
                 partition_active, pc, result, tx, idx, votes, phase_start,
                 commit_acks, commit_base, pre, strategy, ncalls>>

\* a marking method is called on record i; marked is the record afterwards
CallMark(i, method, marked) ==
  /\ pc = "idle"
  /\ i \in DOMAIN records
  /\ records' = [records EXCEPT ![i] = marked]
  /\ call' = [op |-> method, record |-> i]
  /\ UNCHANGED <<accounts, transactions, cache, can_reach, state,
                 last_heartbeat, now, LATENCIES, mode, communication_log,
                 committed_transactions, aborted_transactions,
                 partition_active, pc, result, tx, idx, votes, phase_start,
                 commit_acks, commit_base, pre, strategy, ncalls>>

\* the reasons the services give to mark_aborted and mark_failed
AbortReasons == {"Prepare phase failed"}

FailReasons == {"Provider API failed"}

NextRecord ==
  \/ \E t \in TimePoints : TickTo(t)
  \/ CreateRecord("transfer", "user_001", "user_002", 3000)
  \/ CreateRecord("payment", "user_001", "SENELEC", 2000)
  \/ \E i \in 1..MaxRecords :
       CallMark(i, "mark_prepared", MarkPrepared(records[i]))
  \/ \E i \in 1..MaxRecords :
       CallMark(i, "mark_committed", MarkCommitted(records[i]))
  \/ \E i \in 1..MaxRecords, r \in AbortReasons :
       CallMark(i, "mark_aborted", MarkAborted(records[i], r))
  \/ \E i \in 1..MaxRecords, e \in FailReasons :
       CallMark(i, "mark_failed", MarkFailed(records[i], e))

SpecRecord == InitUnit /\ [][NextRecord]_vars

----------------------------------------------------------------------------
(* The lagging-replica scenario: transfers and payments start from a state
   two calls of the driver leave behind.  A transfer of 3000 from user_001 to user_002
   whose commit message to SAINT_LOUIS got no response, then a payment of
   5000 by user_002 replicated to both replicas: the master holds 3000 for
   user_002 and SAINT_LOUIS holds 0. *)

LagTransfer(n, s) ==
  [transaction_id |-> 1, type |-> "transfer", from_user |-> "user_001",
   to_user |-> "user_002", amount |-> 3000, status |-> s, node_id |-> n]

LagPayment(n) ==
  [transaction_id |-> 2, type |-> "payment", from_user |-> "user_002",
   to_user |-> "SENELEC", amount |-> 5000, status |-> "pending",
   node_id |-> n]

LagLog ==
  <<LogEntry(Master, Master, "prepare", TRUE),
    LogEntry(Master, "SAINT_LOUIS", "prepare", TRUE),
    LogEntry(Master, "ZIGUINCHOR", "prepare", TRUE),
    LogEntry(Master, "SAINT_LOUIS", "commit", FALSE),
    LogEntry(Master, "ZIGUINCHOR", "commit", TRUE)>>

InitLag ==
  /\ accounts = [DAKAR |-> ("user_001" :> 7000) @@ ("user_002" :> 3000),
                 SAINT_LOUIS |-> ("user_001" :> 10000) @@ ("user_002" :> 0),
                 ZIGUINCHOR |-> ("user_001" :> 7000) @@ ("user_002" :> 3000)]
  /\ transactions =
       [DAKAR |-> <<LagTransfer("DAKAR", "prepared"), LagPayment("DAKAR")>>,
        SAINT_LOUIS |-> <<LagPayment("SAINT_LOUIS")>>,
        ZIGUINCHOR |-> <<LagTransfer("ZIGUINCHOR", "prepared"),
                         LagPayment("ZIGUINCHOR")>>]
  /\ cache = [n \in Nodes |-> EmptyDict]
  /\ can_reach = [n \in Nodes |-> [m \in Nodes |-> TRUE]]
  /\ state = [n \in Nodes |-> "healthy"]
  /\ last_heartbeat = [n \in Nodes |-> 0]
  /\ now = 0
  /\ LATENCIES = ConfigLatencies
  /\ mode = "normal"
  /\ communication_log =
       LagLog \o <<LogEntry(Master, "SAINT_LOUIS", "payment_replicate", TRUE),
                   LogEntry(Master, "ZIGUINCHOR", "payment_replicate", TRUE)>>
  /\ records =
       <<MarkCommitted(MarkPrepared(NewTransaction("transfer", "user_001",
                                                   "user_002", 3000))),
         MarkCommitted(NewTransaction("payment", "user_002", "SENELEC",
                                      5000))>>
  /\ committed_transactions = {1}
  /\ aborted_transactions = {}
  /\ partition_active = FALSE
  /\ pc = "idle"
  /\ call = [op |-> "payment", node |-> "SAINT_LOUIS", user |-> "user_002",
             provider |-> "SENELEC", amount |-> 5000, provider_ok |-> TRUE]
  /\ result = [success |-> TRUE, transaction_id |-> 2,
               receipt_id |-> "RCPT", latency_ms |-> 0, new_balance |-> 3000]
  /\ tx = 2
  /\ idx = 0
  /\ votes = EmptyDict
  /\ phase_start = 0
  /\ commit_acks = EmptyDict
  /\ commit_base = <<>>
  /\ pre = [accounts |->
              [DAKAR |-> ("user_001" :> 7000) @@ ("user_002" :> 8000),
               SAINT_LOUIS |-> SeedAccounts,
               ZIGUINCHOR |-> ("user_001" :> 7000) @@ ("user_002" :> 8000)],
            transactions |->
              [DAKAR |-> <<LagTransfer("DAKAR", "prepared")>>,
               SAINT_LOUIS |-> <<>>,
               ZIGUINCHOR |-> <<LagTransfer("ZIGUINCHOR", "prepared")>>],
            cache |-> [n \in Nodes |-> EmptyDict],
            log |-> LagLog, nrecords |-> 1]
  /\ strategy \in Strategies
  /\ ncalls = 0

NextLag ==
  \/ \E t \in TimePoints : TickTo(t)
  \/ \E n \in CallNodes, from \in AllUsers, to \in AllUsers,
        amount \in TransferAmounts : ExecuteTransfer(n, from, to, amount)
  \/ \E d \in BOOLEAN : PrepareStep(d)
  \/ CommitMaster
  \/ \E d \in BOOLEAN : ReplicateStep(d)
  \/ \E n \in CallNodes, u \in AllUsers, p \in Providers,
        amount \in PaymentAmounts, ok \in BOOLEAN, ds \in Deliveries :
        ExecutePayment(n, u, p, amount, ok, ds)

SpecLag == InitLag /\ [][NextLag]_vars

----------------------------------------------------------------------------
(* Properties *)

\* the participants of a transfer of the driver
ParticipantSet == {Master} \cup {ReplicaNodes[i] : i \in DOMAIN ReplicaNodes}

\* the strategy call that returned last went through a node cut from the
\* master
CutCall(ops) ==
  /\ pc = "idle"
  /\ call.op \in ops
  /\ call.node # Master
  /\ ~can_reach[call.node][Master]

\* C1: 2PC atomicity.  Whenever a participant of a transfer has voted NO
\* (its prepare message got no response, or it failed its local check), the
\* balance map of every node is what it was before the call, and once the
\* call has returned its result has success = false.
C1_Atomicity ==
  (call.op = "transfer" /\ tx > 0 /\ \E n \in DOMAIN votes : votes[n] = "NO")
    => /\ accounts = pre.accounts
       /\ pc = "idle" => ("success" \in DOMAIN result /\ ~result.success)

\* a transfer has returned after the master voted YES and ZIGUINCHOR NO
C1_Witness ==
  /\ pc = "idle"
  /\ call.op = "transfer"
  /\ DOMAIN votes = ParticipantSet
  /\ votes[Master] = "YES"
  /\ votes["ZIGUINCHOR"] = "NO"
  /\ "success" \in DOMAIN result
  /\ ~result.success

\* C2: a step of a transfer writes a balance or a history only in a state
\* where every participant (the master and all the replicas) has voted and
\* every vote is YES.
C2_WriteAfterVotes ==
  [][(pc # "idle" /\ (accounts' # accounts \/ transactions' # transactions))
       => \A n \in ParticipantSet : n \in DOMAIN votes /\ votes[n] = "YES"]_vars

\* the master has applied a transfer and the replication is under way
C2_Witness ==
  /\ pc = "replicate"
  /\ accounts[Master] # pre.accounts[Master]
  /\ \A n \in ParticipantSet : n \in DOMAIN votes /\ votes[n] = "YES"

\* C3: primary durability.  When a transfer has returned and the commit
\* message to at least one replica got no response, the result has success
\* = true, the record is committed, the master holds source - amount and
\* destination + amount (source and destination distinct), the record is
\* the last of the history of the master, and every replica whose commit
\* message got no response has the balances and the history it had before
\* the call.
C3_PrimaryDurability ==
  (/\ pc = "idle"
   /\ call.op = "transfer"
   /\ tx > 0
   /\ \E r \in DOMAIN commit_acks : ~commit_acks[r])
    => LET t == records[tx]
           h == transactions[Master]
       IN /\ "success" \in DOMAIN result
          /\ result.success
          /\ t.status = "committed"
          /\ t.from_user # t.to_user =>
               /\ accounts[Master][t.from_user] =
                    pre.accounts[Master][t.from_user] - t.amount
               /\ accounts[Master][t.to_user] =
                    pre.accounts[Master][t.to_user] + t.amount
          /\ Len(h) = Len(pre.transactions[Master]) + 1
          /\ h[Len(h)].transaction_id = tx
          /\ \A r \in DOMAIN commit_acks :
               ~commit_acks[r] =>
                 /\ accounts[r] = pre.accounts[r]
                 /\ transactions[r] = pre.transactions[r]

\* a transfer of 3000 from user_001 to user_002 has returned; SAINT_LOUIS
\* got the commit message and ZIGUINCHOR did not
C3_Witness ==
  /\ pc = "idle"
  /\ call.op = "transfer"
  /\ call.from_user = "user_001"
  /\ call.to_user = "user_002"
  /\ DOMAIN commit_acks = {"SAINT_LOUIS", "ZIGUINCHOR"}
  /\ commit_acks["SAINT_LOUIS"]
  /\ ~commit_acks["ZIGUINCHOR"]
  /\ accounts[Master]["user_001"] = 7000
  /\ accounts["ZIGUINCHOR"]["user_001"] = 10000

\* C4: convergence after sync.  After heal_partition(master, replica), for
\* every transfer in the history of the master that is missing from the
\* history of the replica (its commit message was not delivered), the
\* replica holds the balances of the master for the source and for the
\* destination.
C4_ConvergenceAfterHeal ==
  (call.op = "heal_partition" /\ call.node1 = Master)
    => LET r == call.node2
       IN \A i \in DOMAIN transactions[Master] :
            LET d == transactions[Master][i]
            IN (/\ d.type = "transfer"
                /\ \A j \in DOMAIN transactions[r] :
                     transactions[r][j].transaction_id # d.transaction_id)
                 => /\ accounts[r][d.from_user] = accounts[Master][d.from_user]
                    /\ accounts[r][d.to_user] = accounts[Master][d.to_user]

\* C5: a partition blocks delivery.  A message sent from a to b while a
\* holds b as unreachable (between create_partition and heal_partition of
\* the pair) gets no response, in every mode of the network.
C5_PartitionBlocksDelivery ==
  [][(Len(communication_log') = Len(communication_log) + 1)
       => LET e == communication_log'[Len(communication_log')]
          IN ~can_reach[e.from][e.to] => ~e.success]_vars

\* C6: healing restores latency.  In normal and in congested mode, the
\* heal of a partitioned pair leaves the base latency of both directions
\* of the pair at the value of the pair in the configured normal table.
C6_HealRestoresLatency ==
  [][\A p \in NetPairs :
       (/\ call'.op = "heal_partition"
        /\ call'.node1 = p[1]
        /\ call'.node2 = p[2]
        /\ ~can_reach[p[1]][p[2]]
        /\ mode \in {"normal", "congested"})
         => /\ BaseLatency(LATENCIES', mode', p[1], p[2])
                 = BaseLatency(ConfigLatencies, "normal", p[1], p[2])
            /\ BaseLatency(LATENCIES', mode', p[2], p[1])
                 = BaseLatency(ConfigLatencies, "normal", p[2], p[1])]_vars

\* C7: healing restores flags.  Right after heal_partition(a, b), whatever
\* ran during the partition, a holds b as reachable, b holds a as
\* reachable, and the state of both nodes is healthy.
C7_HealRestoresFlags ==
  call.op = "heal_partition"
    => /\ can_reach[call.node1][call.node2]
       /\ can_reach[call.node2][call.node1]
       /\ state[call.node1] = "healthy"
       /\ state[call.node2] = "healthy"

\* the pair has been healed after a query was served in partition mode
C7_Witness ==
  /\ call.op = "heal_partition"
  /\ ncalls > 0
  /\ "partition_mode" \in DOMAIN result
  /\ state[call.node2] = "healthy"

\* C8: Pure CP denial.  Under the Pure CP strategy, a transfer, a balance
\* query, a history query or a payment of any amount through a replica that
\* holds the master as unreachable returns success = false with a reason
\* saying that the master cannot be reached, sends no message, creates no
\* transaction record and leaves the balances, the histories and the caches
\* of all nodes as they were.
C8_PureCPDenial ==
  (strategy = "CP" /\ CutCall({"transfer", "balance", "history", "payment"}))
    => /\ "success" \in DOMAIN result
       /\ ~result.success
       /\ "reason" \in DOMAIN result
       /\ result.reason \in {"Cannot reach master node",
                             "Cannot reach master node (network partition)"}
       /\ communication_log = pre.log
       /\ Len(records) = pre.nrecords
       /\ accounts = pre.accounts
       /\ transactions = pre.transactions
       /\ cache = pre.cache

\* a payment through ZIGUINCHOR, cut from the master, has been denied
C8_Witness ==
  /\ strategy = "CP"
  /\ CutCall({"payment"})
  /\ call.node = "ZIGUINCHOR"
  /\ "reason" \in DOMAIN result
  /\ result.reason = "Cannot reach master node"

\* C9: Adaptive reads under partition.  Under the Adaptive strategy, through
\* a replica that holds the master as unreachable, a balance query with
\* context display for an account of the calling node, and a history query
\* for any user, return success = true with partition_mode = true, send no
\* message, and are served by the calling node: the balance is the one the
\* calling node holds, every transaction returned was recorded by the
\* calling node, and no other node is touched.
C9_AdaptiveReads ==
  (/\ strategy = "ADAPTIVE"
   /\ CutCall({"balance", "history"})
   /\ call.op = "balance" =>
        /\ call.context = "display"
        /\ call.user \in DOMAIN accounts[call.node])
    => /\ "success" \in DOMAIN result
       /\ result.success
       /\ "partition_mode" \in DOMAIN result
       /\ result.partition_mode
       /\ communication_log = pre.log
       /\ accounts = pre.accounts
       /\ transactions = pre.transactions
       /\ \A n \in Nodes \ {call.node} : cache[n] = pre.cache[n]
       /\ call.op = "balance" =>
            result.balance = accounts[call.node][call.user]
       /\ call.op = "history" =>
            \A i \in DOMAIN result.transactions :
              result.transactions[i].node_id = call.node

\* the balance of user_001 has been displayed by ZIGUINCHOR, cut from the
\* master
C9_Witness ==
  /\ strategy = "ADAPTIVE"
  /\ CutCall({"balance"})
  /\ call.node = "ZIGUINCHOR"
  /\ call.context = "display"
  /\ call.user = "user_001"
  /\ "partition_mode" \in DOMAIN result
  /\ result.balance = 10000

\* C10: Adaptive payment under partition.  Under the Adaptive strategy, a
\* payment through a node that holds the master as unreachable returns
\* success = true with status queued and partition_mode = true when the
\* amount is below 5000, and success = false when the amount is 5000 or
\* more.
C10_AdaptivePayment ==
  (strategy = "ADAPTIVE" /\ CutCall({"payment"}))
    => /\ "success" \in DOMAIN result
       /\ IF call.amount < 5000
          THEN /\ result.success
               /\ "status" \in DOMAIN result
               /\ result.status = "queued"
               /\ "partition_mode" \in DOMAIN result
               /\ result.partition_mode
          ELSE ~result.success

\* a payment of 4999 through ZIGUINCHOR, cut from the master, is queued
C10_Witness ==
  /\ strategy = "ADAPTIVE"
  /\ CutCall({"payment"})
  /\ call.amount = 4999
  /\ "status" \in DOMAIN result
  /\ result.status = "queued"

\* C11: Adaptive transfer denial.  Under the Adaptive strategy a transfer
\* through a node that holds the master as unreachable never enters the
\* 2PC protocol: the call has returned success = false with
\* available_actions = [consulter_solde, voir_historique], no transaction
\* record was created, no message was sent and no balance of any node
\* changed.
C11_AdaptiveTransferDenial ==
  (/\ strategy = "ADAPTIVE"
   /\ call.op = "transfer"
   /\ call.node # Master
   /\ ~can_reach[call.node][Master])
    => /\ pc = "idle"
       /\ tx = 0
       /\ "success" \in DOMAIN result
       /\ ~result.success
       /\ "available_actions" \in DOMAIN result
       /\ result.available_actions = <<"consulter_solde", "voir_historique">>
       /\ Len(records) = pre.nrecords
       /\ communication_log = pre.log
       /\ accounts = pre.accounts

\* a transfer through ZIGUINCHOR, cut from the master, has been denied
C11_Witness ==
  /\ strategy = "ADAPTIVE"
  /\ CutCall({"transfer"})
  /\ call.node = "ZIGUINCHOR"
  /\ call.from_user = "user_001"
  /\ call.to_user = "user_002"
  /\ "available_actions" \in DOMAIN result

\* the step is an AP balance query (Adaptive strategy, context display) on
\* a node that holds the account
APQueryStep ==
  /\ ncalls' = ncalls + 1
  /\ strategy = "ADAPTIVE"
  /\ call'.op = "balance"
  /\ call'.context = "display"
  /\ call'.user \in DOMAIN accounts[call'.node]

\* the node of the query holds an unexpired cache entry for the balance of
\* the user when the query starts
LiveBalanceEntry ==
  /\ <<"balance", call'.user>> \in DOMAIN cache[call'.node]
  /\ now < cache[call'.node][<<"balance", call'.user>>].expiry

\* C12: cache population on the AP path.  An AP balance query on a node
\* that holds the account and no unexpired cache entry for it returns the
\* balance the node holds and leaves a cache entry for balance:<user> with
\* that balance, expiring 60 s after the query.
C12_CachePopulation ==
  [][(APQueryStep /\ ~LiveBalanceEntry)
       => LET n == call'.node
              u == call'.user
              k == <<"balance", u>>
          IN /\ result'.success
             /\ result'.balance = accounts[n][u]
             /\ k \in DOMAIN cache'[n]
             /\ cache'[n][k].value = accounts[n][u]
             /\ cache'[n][k].expiry = now + 60]_vars

\* C13: cache-hit tagging.  An AP balance query on a node that holds the
\* account is tagged source cache and freshness cached exactly when the
\* node held an unexpired cache entry for the balance when the query
\* started, and is tagged source replica_local otherwise.
C13_CacheHitTagging ==
  [][APQueryStep
       => /\ result'.success
          /\ (result'.source = "cache" /\ result'.freshness = "cached")
               <=> LiveBalanceEntry
          /\ ~LiveBalanceEntry => result'.source = "replica_local"]_vars

\* C14: write invalidation of the history cache.  Right after a record of
\* user u is added to the history of a node, the node holds no cache entry
\* for history:<u>; and a history query for u on a node returns every
\* record of u the node holds.
C14_HistoryInvalidation ==
  [][/\ call'.op = "add_transaction" /\ transactions' # transactions
          => \A u \in {call'.from_user, call'.to_user} :
               <<"history", u>> \notin DOMAIN cache'[call'.node]
     /\ call'.op = "get_history" /\ now' = now
          => \A i \in DOMAIN transactions[call'.node] :
               LET d == transactions[call'.node][i]
               IN (d.from_user = call'.user \/ d.to_user = call'.user)
                    => \E j \in DOMAIN result'.transactions :
                         result'.transactions[j] = d]_vars

\* the terminal statuses of a record
Terminal == {"committed", "aborted", "failed"}

\* C15: status monotonicity.  Whatever marking method is called on a
\* record, a record whose status is committed, aborted or failed keeps its
\* status and its completion timestamp, and a record that becomes terminal
\* gets the time of the step as completion timestamp.
C15_StatusMonotonic ==
  [][\A i \in DOMAIN records :
       /\ records[i].status \in Terminal
            => /\ records'[i].status = records[i].status
               /\ records'[i].completed_at = records[i].completed_at
       /\ (records[i].status \notin Terminal
           /\ records'[i].status \in Terminal)
            => records'[i].completed_at = <<now>>]_vars

C17_WriteEligibility ==
  [][\A n \in Nodes :
       (accounts'[n] # accounts[n] \/ transactions'[n] # transactions[n])
         => Role[n] \in {"master", "replica_rw"}]_vars

\* the messages of the call that returned last all got a response
AllDelivered ==
  \A i \in DOMAIN communication_log :
    i > Len(pre.log) => communication_log[i].success

\* every participant is healthy: its state is healthy and its heartbeat is
\* at most 3 s old
AllHealthy ==
  \A n \in ParticipantSet :
    state[n] = "healthy" /\ now - last_heartbeat[n] <= 3

\* C18: happy-path transfer.  When a transfer between two distinct accounts
\* of the master, of an amount the source covers, has returned with every
\* message delivered and every participant healthy, the result has success
\* = true, the master holds source - amount and destination + amount, and
\* new_balance_from and new_balance_to of the result are those balances.
C18_HappyPath ==
  (/\ pc = "idle"
   /\ call.op = "transfer"
   /\ tx > 0
   /\ call.from_user # call.to_user
   /\ call.from_user \in DOMAIN pre.accounts[Master]
   /\ call.to_user \in DOMAIN pre.accounts[Master]
   /\ call.amount <= pre.accounts[Master][call.from_user]
   /\ AllDelivered
   /\ AllHealthy)
    => LET b1 == pre.accounts[Master][call.from_user]
           b2 == pre.accounts[Master][call.to_user]
       IN /\ "success" \in DOMAIN result
          /\ result.success
          /\ accounts[Master][call.from_user] = b1 - call.amount
          /\ accounts[Master][call.to_user] = b2 + call.amount
          /\ result.new_balance_from = b1 - call.amount
          /\ result.new_balance_to = b2 + call.amount

\* 3000 went from user_001 (10000) to user_002 (5000) with every message
\* delivered: the master holds 7000 and 8000
C18_Witness ==
  /\ pc = "idle"
  /\ call.op = "transfer"
  /\ tx > 0
  /\ Len(communication_log) = Len(pre.log) + 5
  /\ AllDelivered
  /\ AllHealthy
  /\ accounts[Master]["user_001"] = 7000
  /\ accounts[Master]["user_002"] = 8000
  /\ "new_balance_from" \in DOMAIN result
  /\ result.new_balance_from = 7000
  /\ result.new_balance_to = 8000

\* the transfer of the call fails the pre-checks on the balances the master
\* held when the call started
PreCheckFails ==
  \/ call.from_user \notin DOMAIN pre.accounts[Master]
  \/ call.to_user \notin DOMAIN pre.accounts[Master]
  \/ pre.accounts[Master][call.from_user] < call.amount

\* C19: pre-check failure.  A transfer whose source account is missing on
\* the master, whose source balance is below the amount or whose
\* destination account is missing on the master never reaches the prepare
\* phase: it has returned success = false, its record is aborted, the
\* communication log is as it was before the call and no balance of any
\* node changed.
C19_PreCheckFailure ==
  (call.op = "transfer" /\ tx > 0 /\ PreCheckFails)
    => /\ pc = "idle"
       /\ records[tx].status = "aborted"
       /\ "success" \in DOMAIN result
       /\ ~result.success
       /\ communication_log = pre.log
       /\ accounts = pre.accounts

\* a transfer of 6000 from user_002, who holds 5000, has been aborted
C19_Witness ==
  /\ call.op = "transfer"
  /\ tx > 0
  /\ call.from_user = "user_002"
  /\ call.to_user = "user_001"
  /\ call.amount = 6000
  /\ pre.accounts[Master]["user_002"] = 5000
  /\ records[tx].status = "aborted"
  /\ records[tx].error_message = "Pre-checks failed"

\* C20: compensating rollback.  When a payment under the Pure CP strategy,
\* or a payment of 5000 or more under the Adaptive strategy, has returned
\* after the provider failed, the master holds for the user the balance it
\* held before the call, the record is failed, the result has success =
\* false, no history of any node got a record, no balance of any replica
\* changed and no message was sent.
C20_CompensatingRollback ==
  (/\ pc = "idle"
   /\ call.op = "payment"
   /\ tx > 0
   /\ ~call.provider_ok
   /\ strategy = "ADAPTIVE" => call.amount >= 5000)
    => /\ accounts[Master][call.user] = pre.accounts[Master][call.user]
       /\ records[tx].status = "failed"
       /\ "success" \in DOMAIN result
       /\ ~result.success
       /\ transactions = pre.transactions
       /\ \A n \in Nodes \ {Master} : accounts[n] = pre.accounts[n]
       /\ communication_log = pre.log

\* the provider failed a payment of 5000 of user_001 under the Adaptive
\* strategy
C20_Witness ==
  /\ pc = "idle"
  /\ call.op = "payment"
  /\ strategy = "ADAPTIVE"
  /\ call.user = "user_001"
  /\ call.amount = 5000
  /\ ~call.provider_ok
  /\ records[tx].error_message = "Provider API failed"
  /\ accounts[Master]["user_001"] = 10000

\* C21: insufficient funds.  Under both strategies, when pay_bill has
\* returned for a user whose account is missing on the master or whose
\* balance on the master is below the amount, the result has success =
\* false with the error of the balance check (the one returned before the
\* provider is asked), the record is failed, no balance of any node changed
\* and no message was sent.
C21_InsufficientFunds ==
  (/\ pc = "idle"
   /\ call.op = "payment"
   /\ tx > 0
   /\ \/ call.user \notin DOMAIN pre.accounts[Master]
      \/ pre.accounts[Master][call.user] < call.amount)
    => /\ "success" \in DOMAIN result
       /\ ~result.success
       /\ result.error = "Insufficient balance"
       /\ records[tx].status = "failed"
       /\ records[tx].error_message = "Insufficient balance"
       /\ accounts = pre.accounts
       /\ transactions = pre.transactions
       /\ communication_log = pre.log

\* a payment of 6000 of user_002, who holds 5000, has failed under the
\* Adaptive strategy
C21_Witness ==
  /\ pc = "idle"
  /\ call.op = "payment"
  /\ strategy = "ADAPTIVE"
  /\ tx > 0
  /\ call.user = "user_002"
  /\ call.amount = 6000
  /\ records[tx].status = "failed"
  /\ accounts[Master]["user_002"] = 5000

\* C22: result shape.  The dict an operation of a strategy (transfer,
\* balance query, history query, payment) has returned holds a boolean
\* under success and a number under latency_ms, whether the operation
\* succeeded, failed or aborted in the service, or was denied or queued by
\* the strategy.
C22_ResultShape ==
  (pc = "idle" /\ call.op \in {"transfer", "balance", "history", "payment"})
    => /\ "success" \in DOMAIN result
       /\ result.success \in BOOLEAN
       /\ "latency_ms" \in DOMAIN result
       /\ result.latency_ms \in Nat

\* the step sends the prepare message of a transfer to a participant
PrepareSent ==
  /\ pc = "prepare"
  /\ Len(communication_log') = Len(communication_log) + 1
  /\ communication_log'[Len(communication_log')].type = "prepare"

\* the node is healthy when the step starts: its state is healthy and its
\* heartbeat is at most 3 s old
HealthyNow(n) == state[n] = "healthy" /\ now - last_heartbeat[n] <= 3

\* C23 as stated: a replica whose prepare message was delivered votes YES,
\* whatever its health state.
C23_ReplicaAlwaysYes ==
  [][PrepareSent
       => LET e == communication_log'[Len(communication_log')]
          IN (e.to # Master /\ e.success) => votes'[e.to] = "YES"]_vars

\* C23, amended: a replica votes YES exactly when its prepare message was
\* delivered and it is healthy; the master votes YES exactly when its
\* prepare message was delivered, it is healthy and it holds at least the
\* amount for the source.
C23_ReplicaVotes ==
  [][PrepareSent
       => LET e == communication_log'[Len(communication_log')]
              t == records[tx]
          IN IF e.to = Master
             THEN votes'[e.to] = "YES"
                    <=> /\ e.success
                        /\ HealthyNow(e.to)
                        /\ accounts[Master][t.from_user] >= t.amount
             ELSE votes'[e.to] = "YES"
                    <=> (e.success /\ HealthyNow(e.to))]_vars

\* the prepare message of a transfer reached ZIGUINCHOR, which had been
\* isolated by a partition, and ZIGUINCHOR voted NO
C23_Witness ==
  /\ call.op = "transfer"
  /\ tx > 0
  /\ now = 0
  /\ "ZIGUINCHOR" \in DOMAIN votes
  /\ votes["ZIGUINCHOR"] = "NO"
  /\ state["ZIGUINCHOR"] = "isolated"
  /\ \E i \in DOMAIN communication_log :
       /\ i > Len(pre.log)
       /\ communication_log[i].to = "ZIGUINCHOR"
       /\ communication_log[i].success

\* the heartbeat of a participant was stale when the prepare phase of the
\* running transfer started
StaleAtStart ==
  \E n \in ParticipantSet : phase_start - last_heartbeat[n] > HeartbeatTimeout

\* C24: heartbeat staleness is absorbing.  No step refreshes a heartbeat; a
\* node whose heartbeat is older than 3 s is not healthy after any step,
\* the heal of a partition included; and a transfer whose prepare phase
\* starts while the heartbeat of a participant is stale never leaves the
\* prepare phase but to return aborted, with success = false and the
\* balances as they were.
C24_StaleHeartbeatAbsorbing ==
  [][/\ last_heartbeat' = last_heartbeat
     /\ \A n \in Nodes : Stale(n) => ~IsHealthy(n)'
     /\ (pc = "prepare" /\ StaleAtStart)
          => /\ pc' \in {"prepare", "idle"}
             /\ accounts' = accounts
             /\ pc' = "idle" => /\ records'[tx].status = "aborted"
                                /\ ~result'.success]_vars

\* at 6 s the pair was partitioned and healed, and a transfer started after
\* the heal has aborted in the prepare phase with every message delivered
C24_Witness ==
  /\ pc = "idle"
  /\ call.op = "transfer"
  /\ tx > 0
  /\ now = 6
  /\ ~partition_active
  /\ LATENCIES # ConfigLatencies
  /\ pre.log = <<>>
  /\ Len(communication_log) = 3
  /\ \A i \in DOMAIN communication_log : communication_log[i].success
  /\ records[tx].error_message = "Prepare phase failed"
  /\ \A n \in ParticipantSet : votes[n] = "NO"

\* the sum of the balances of a balance map
RECURSIVE SumBalances(_)
SumBalances(b) ==
  IF DOMAIN b = {} THEN 0
  ELSE LET u == CHOOSE x \in DOMAIN b : TRUE
       IN b[u] + SumBalances(DictDel(b, u))

\* C25: money conservation.  When a transfer has returned success = true,
\* the sum of the balances of the master is what it was before the call,
\* for every source and destination, the same account given twice
\* included.
C25_MoneyConservation ==
  (/\ pc = "idle"
   /\ call.op = "transfer"
   /\ tx > 0
   /\ "success" \in DOMAIN result
   /\ result.success)
    => SumBalances(accounts[Master]) = SumBalances(pre.accounts[Master])

\* C26: network instances are isolated.  When a simulator is built after
\* pairs were partitioned or healed on another one, the latency tables of
\* the configuration are as they were loaded, and the new simulator
\* resolves every pair at the latency the configuration gives it in its
\* mode.
C26_InstancesIsolated ==
  call.op = "new_simulator"
    => /\ LATENCIES = ConfigLatencies
       /\ \A a \in Nodes, b \in Nodes :
            BaseLatency(LATENCIES, mode, a, b)
              = BaseLatency(ConfigLatencies, mode, a, b)

\* the messages the running (or last) call has sent
CallLog == SubSeq(communication_log, Len(pre.log) + 1, Len(communication_log))

\* C27: vote aggregation.  Unless the prepare deadline fired, the prepare
\* messages of a transfer go to the master and then to the replicas in the
\* order of the replica list, one vote is recorded per message sent, also
\* after a NO, and the prepare phase is left (to commit or to abort) only
\* when every participant has a vote.
C27_VoteAggregation ==
  (/\ call.op = "transfer"
   /\ tx > 0
   /\ records[tx].error_message
        \notin {"Pre-checks failed", "Timeout: Prepare phase timeout"})
    => LET k == Cardinality(DOMAIN votes)
           order == <<Master>> \o ReplicaNodes
       IN /\ k <= Len(order)
          /\ DOMAIN votes = {order[i] : i \in 1..k}
          /\ Len(CallLog) >= k
          /\ \A i \in 1..k :
               /\ CallLog[i].type = "prepare"
               /\ CallLog[i].from = Master
               /\ CallLog[i].to = order[i]
               /\ ~CallLog[i].success => votes[order[i]] = "NO"
          /\ pc = "prepare" => Len(CallLog) = k
          /\ pc # "prepare" => k = Len(order)
          /\ pc \in {"commit", "replicate"} =>
               \A n \in DOMAIN votes : votes[n] = "YES"

\* the prepare message to the master got no response, the two replicas
\* were asked all the same and the transfer aborted
C27_Witness ==
  /\ pc = "idle"
  /\ call.op = "transfer"
  /\ tx > 0
  /\ Len(CallLog) = 3
  /\ ~CallLog[1].success
  /\ CallLog[3].to = "ZIGUINCHOR"
  /\ votes[Master] = "NO"
  /\ votes["SAINT_LOUIS"] = "YES"
  /\ votes["ZIGUINCHOR"] = "YES"
  /\ records[tx].error_message = "Prepare phase failed"

\* C28: prepare timeout.  A step of the prepare loop taken more than 5 s
\* after the phase started, with a participant still to contact, ends the
\* transfer: it returns success = false with a timeout reason, the record
\* is aborted, the call has sent no commit message and no further message,
\* and the balances of all nodes are those of before the call.
C28_PrepareTimeout ==
  [][(/\ pc = "prepare"
      /\ now - phase_start > 5
      /\ idx <= Len(Participants)
      /\ now' = now)
       => /\ pc' = "idle"
          /\ ~result'.success
          /\ result'.error = "Timeout: Prepare phase timeout"
          /\ records'[tx].status = "aborted"
          /\ tx \in aborted_transactions'
          /\ communication_log' = communication_log
          /\ \A i \in DOMAIN communication_log' :
               i > Len(pre.log) => communication_log'[i].type # "commit"
          /\ accounts' = pre.accounts]_vars

\* the master voted YES at 0, the deadline passed before SAINT_LOUIS was
\* contacted and the transfer has aborted
C28_Witness ==
  /\ pc = "idle"
  /\ call.op = "transfer"
  /\ tx > 0
  /\ now = 6
  /\ DOMAIN votes = {Master}
  /\ votes[Master] = "YES"
  /\ records[tx].error_message = "Timeout: Prepare phase timeout"
  /\ accounts = pre.accounts

\* C29: commit timeout.  A step of the replication loop taken more than 5 s
\* after the commit phase started, with a replica still to contact, ends
\* the transfer with success = true and the record committed; no further
\* message is sent, the replicas not yet contacted hold the balances and
\* the history of before the call, and the master keeps the debit, the
\* credit and the record of the transfer.
C29_CommitTimeout ==
  [][(/\ pc = "replicate"
      /\ now - phase_start > 5
      /\ idx <= Len(ReplicaNodes)
      /\ now' = now)
       => LET t == records[tx]
              h == transactions'[Master]
          IN /\ pc' = "idle"
             /\ result'.success
             /\ records'[tx].status = "committed"
             /\ tx \in committed_transactions'
             /\ tx \notin aborted_transactions'
             /\ communication_log' = communication_log
             /\ \A k \in idx..Len(ReplicaNodes) :
                  /\ accounts'[ReplicaNodes[k]] = pre.accounts[ReplicaNodes[k]]
                  /\ transactions'[ReplicaNodes[k]]
                       = pre.transactions[ReplicaNodes[k]]
             /\ t.from_user # t.to_user =>
                  /\ accounts'[Master][t.from_user]
                       = pre.accounts[Master][t.from_user] - t.amount
                  /\ accounts'[Master][t.to_user]
                       = pre.accounts[Master][t.to_user] + t.amount
             /\ h[Len(h)].transaction_id = tx]_vars

\* SAINT_LOUIS got the commit message at 0, the deadline passed before
\* ZIGUINCHOR was contacted and the transfer has returned committed
C29_Witness ==
  /\ pc = "idle"
  /\ call.op = "transfer"
  /\ tx > 0
  /\ now = 6
  /\ DOMAIN commit_acks = {"SAINT_LOUIS"}
  /\ commit_acks["SAINT_LOUIS"]
  /\ records[tx].status = "committed"
  /\ result.success
  /\ accounts[Master]["user_001"] = 7000
  /\ accounts["SAINT_LOUIS"]["user_001"] = 7000
  /\ accounts["ZIGUINCHOR"]["user_001"] = 10000

\* the step delivers the commit message of a transfer to a replica
CommitDelivered ==
  /\ pc = "replicate"
  /\ Len(communication_log') = Len(communication_log) + 1
  /\ communication_log'[Len(communication_log')].type = "commit"
  /\ communication_log'[Len(communication_log')].success

\* C30: replica base balance.  A replica that gets the commit message of a
\* transfer between two distinct accounts applies the debit and the credit
\* to the balance it holds for the user, a balance of 0 included, and to
\* the balance the master held before its commit only when it holds no
\* balance for the user.
C30_ReplicaBaseBalance ==
  [][CommitDelivered
       => LET r == communication_log'[Len(communication_log')].to
              t == records[tx]
              from_base == IF t.from_user \in DOMAIN accounts[r]
                           THEN accounts[r][t.from_user] ELSE commit_base[1]
              to_base == IF t.to_user \in DOMAIN accounts[r]
                         THEN accounts[r][t.to_user] ELSE commit_base[2]
          IN t.from_user # t.to_user
               => /\ accounts'[r][t.from_user] = from_base - t.amount
                  /\ accounts'[r][t.to_user] = to_base + t.amount]_vars

C32_PrimaryNonNegative ==
  \A u \in DOMAIN accounts[Master] : accounts[Master][u] >= 0

\* a payment of the whole balance went through and left the account at 0
C32_Witness ==
  /\ call.op = "payment"
  /\ result # NoResult
  /\ "success" \in DOMAIN result /\ result.success
  /\ call.user = "user_002"
  /\ call.amount = 5000
  /\ accounts[Master]["user_002"] = 0

\* C33: the balances of the replicas never go negative, also when commit or
\* payment_replicate messages to a replica got no response.
C33_ReplicaNonNegative ==
  \A k \in DOMAIN ReplicaNodes :
    \A u \in DOMAIN accounts[ReplicaNodes[k]] :
      accounts[ReplicaNodes[k]][u] >= 0

\* the call is a payment that went down the strict path of the payment
\* service: the master was reached and the strategy is Pure CP, or the
\* amount is not below the threshold of the adaptive mode
StrictPayment ==
  /\ call.op = "payment"
  /\ tx > 0
  /\ (strategy = "CP" \/ call.amount >= PaymentThreshold)

\* the balance check of pay_bill passed on the balances the master held
\* when the call started
BalanceCovers ==
  /\ call.user \in DOMAIN pre.accounts[Master]
  /\ pre.accounts[Master][call.user] >= call.amount

\* node n holds one more history entry than before the call, the dict of
\* the record of the call
RecordAppended(n) ==
  /\ Len(transactions[n]) = Len(pre.transactions[n]) + 1
  /\ SubSeq(transactions[n], 1, Len(pre.transactions[n]))
       = pre.transactions[n]
  /\ transactions[n][Len(transactions[n])].transaction_id = tx
  /\ transactions[n][Len(transactions[n])].amount = call.amount

\* C34: strict payment success.  When the balance check passes and the
\* provider call succeeds, the master holds the previous balance minus the
\* amount and one more history entry, the record of the payment; each
\* replica is debited by the amount and gets the record exactly when its
\* payment_replicate message was delivered, and is left as it was
\* otherwise; the result is success = true with a receipt id and the
\* record is committed.
C34_StrictPaymentSuccess ==
  (StrictPayment /\ BalanceCovers /\ call.provider_ok)
    => /\ accounts[Master][call.user]
            = pre.accounts[Master][call.user] - call.amount
       /\ RecordAppended(Master)
       /\ Len(CallLog) = Len(ReplicaNodes)
       /\ \A k \in DOMAIN ReplicaNodes :
            LET r == ReplicaNodes[k]
            IN /\ CallLog[k].type = "payment_replicate"
               /\ CallLog[k].to = r
               /\ IF CallLog[k].success
                  THEN /\ accounts[r][call.user]
                            = pre.accounts[r][call.user] - call.amount
                       /\ RecordAppended(r)
                  ELSE /\ accounts[r] = pre.accounts[r]
                       /\ transactions[r] = pre.transactions[r]
       /\ "success" \in DOMAIN result
       /\ result.success
       /\ "receipt_id" \in DOMAIN result
       /\ result.transaction_id = tx
       /\ records[tx].status = "committed"

\* a strict payment of 5000 by user_001 succeeded; SAINT_LOUIS got its
\* payment_replicate message and ZIGUINCHOR did not
C34_Witness ==
  /\ StrictPayment
  /\ call.provider_ok
  /\ call.user = "user_001"
  /\ call.amount = 5000
  /\ Len(CallLog) = 2
  /\ CallLog[1].success
  /\ ~CallLog[2].success
  /\ accounts[Master]["user_001"] = 5000
  /\ accounts["SAINT_LOUIS"]["user_001"] = 5000
  /\ accounts["ZIGUINCHOR"]["user_001"] = 10000
  /\ records[tx].status = "committed"

\* the call is a payment of the Adaptive strategy that reached the payment
\* service with a balance that covers the amount
AdaptivePayment ==
  /\ call.op = "payment"
  /\ tx > 0
  /\ strategy = "ADAPTIVE"
  /\ BalanceCovers

\* C35: adaptive payment mode, master reachable and balance sufficient.
\* Below 5000 the master is debited at once, the result is success = true
\* with status 'pending', the record is committed and the provider is not
\* asked: there is no receipt, no message and no node other than the
\* master changes.  From 5000 on, 5000 included, the payment takes the
\* strict path: with the provider's confirmation a receipt, the debit and one
\* payment_replicate message per replica; with the provider's refusal the
\* debit is rolled back, the record is failed and no message is sent.
C35_AdaptivePaymentMode ==
  AdaptivePayment
    => IF call.amount < PaymentThreshold
       THEN /\ accounts[Master][call.user]
                 = pre.accounts[Master][call.user] - call.amount
            /\ "success" \in DOMAIN result
            /\ result.success
            /\ "status" \in DOMAIN result
            /\ result.status = "pending"
            /\ "receipt_id" \notin DOMAIN result
            /\ records[tx].status = "committed"
            /\ CallLog = <<>>
            /\ \A k \in DOMAIN ReplicaNodes :
                 accounts[ReplicaNodes[k]] = pre.accounts[ReplicaNodes[k]]
       ELSE IF call.provider_ok
       THEN /\ accounts[Master][call.user]
                 = pre.accounts[Master][call.user] - call.amount
            /\ "success" \in DOMAIN result
            /\ result.success
            /\ "receipt_id" \in DOMAIN result
            /\ "status" \notin DOMAIN result
            /\ records[tx].status = "committed"
            /\ Len(CallLog) = Len(ReplicaNodes)
            /\ \A k \in DOMAIN CallLog :
                 CallLog[k].type = "payment_replicate"
       ELSE /\ accounts = pre.accounts
            /\ "success" \in DOMAIN result
            /\ ~result.success
            /\ result.error = "Provider API failed"
            /\ records[tx].status = "failed"
            /\ CallLog = <<>>

\* an adaptive payment of 4999 by user_002 (5000) went through in queue
\* mode and left 1 on the master
C35_Witness ==
  /\ AdaptivePayment
  /\ call.amount = 4999
  /\ call.user = "user_002"
  /\ accounts[Master]["user_002"] = 1
  /\ "status" \in DOMAIN result
  /\ result.status = "pending"
  /\ records[tx].status = "committed"

\* C36: a queued payment is state-neutral.  An Adaptive payment below 5000
\* through a node that holds the master as unreachable leaves the balances,
\* the histories and the caches of all nodes as they were, creates no
\* transaction record and sends no message; it returns success = true
\* whatever the balance of the user, also when the balance is below the
\* amount or the account does not exist.
C36_QueuedPaymentNeutral ==
  (strategy = "ADAPTIVE" /\ CutCall({"payment"})
     /\ call.amount < PaymentThreshold)
    => /\ accounts = pre.accounts
       /\ transactions = pre.transactions
       /\ cache = pre.cache
       /\ Len(records) = pre.nrecords
       /\ tx = 0
       /\ communication_log = pre.log
       /\ "success" \in DOMAIN result
       /\ result.success
       /\ "transaction_id" \in DOMAIN result
       /\ result.transaction_id = "queue"

\* a payment of 2000 by user_404, who has no account, was queued through a
\* node cut from the master
C36_Witness ==
  /\ strategy = "ADAPTIVE"
  /\ CutCall({"payment"})
  /\ call.amount = 2000
  /\ call.user = "user_404"
  /\ call.user \notin DOMAIN accounts[Master]
  /\ "success" \in DOMAIN result
  /\ result.success
  /\ records = <<>>

\* C37 as stated: one-way status progression.  A record that is committed
\* after a step of the services was prepared, or committed already, before
\* the step: no record, transfer or payment, that a step found pending or
\* created (a record is created pending) is committed by that step.
C37_CommittedOnlyFromPrepared ==
  [][\A i \in DOMAIN records' :
       records'[i].status = "committed"
         => /\ i \in DOMAIN records
            /\ records[i].status \in {"prepared", "committed"}]_vars

\* C37: one-way status progression of the records.  A transfer record that
\* is committed after a step was prepared, or committed already, before the
\* step.  A payment record has no prepare phase: it is never prepared, and
\* the call that creates it pending leaves it committed or failed.
C37_TransferCommittedFromPrepared ==
  [][\A i \in DOMAIN records' :
       /\ (records'[i].type = "transfer"
             /\ records'[i].status = "committed")
            => /\ i \in DOMAIN records
               /\ records[i].status \in {"prepared", "committed"}
       /\ records'[i].type = "payment"
            => records'[i].status \in {"committed", "failed"}]_vars

\* a transfer went through both phases and its record is committed
C37_Witness ==
  /\ pc = "idle"
  /\ call.op = "transfer"
  /\ tx > 0
  /\ records[tx].type = "transfer"
  /\ records[tx].status = "committed"
  /\ tx \in committed_transactions
  /\ Len(CallLog) = Len(Participants) + Len(ReplicaNodes)

C39_TransferBookkeeping ==
  /\ committed_transactions \cap aborted_transactions = {}
  /\ \A i \in committed_transactions :
       i \in DOMAIN records /\ records[i].status = "committed"
  /\ \A i \in aborted_transactions :
       i \in DOMAIN records /\ records[i].status = "aborted"
  /\ (pc = "idle" /\ call.op = "transfer" /\ tx > 0)
       => /\ tx \in committed_transactions \cup aborted_transactions
          /\ "success" \in DOMAIN result
          /\ result.success <=> tx \in committed_transactions
          /\ result.transaction_id = tx

\* a transfer was aborted after a NO vote of the prepare phase
C39_Witness ==
  /\ pc = "idle"
  /\ call.op = "transfer"
  /\ tx > 0
  /\ tx \in aborted_transactions
  /\ tx \notin committed_transactions
  /\ "error" \in DOMAIN result
  /\ result.error = "Prepare phase failed"
  /\ records[tx].status = "aborted"

\* C40: self-delivery.  A message a node sends to itself, as the prepare
\* message of the master to itself, always gets a response, so the master
\* votes NO only when its own check fails: a master that is healthy and
\* holds the amount has voted YES.
C40_SelfDelivery ==
  /\ \A i \in DOMAIN communication_log :
       communication_log[i].from = communication_log[i].to
         => communication_log[i].success
  /\ (pc = "prepare" /\ Master \in DOMAIN votes
        /\ HealthyNow(Master)
        /\ accounts[Master][records[tx].from_user] >= records[tx].amount)
       => votes[Master] = "YES"

====
